---------------------------- MODULE Spec2Model ----------------------------
(***************************************************************************)
(* Verification model of the cloth simulator (js/particle.js and the cloth *)
(* source: Constraint, Cloth, force generators, collision passes).         *)
(*                                                                         *)
(* Numbers.  The program computes in IEEE doubles.  The model computes     *)
(* exactly in the field Q(sqrt 2), extended by the three non-finite        *)
(* doubles: a number is a triple <<a, b, d>> standing for                  *)
(* (a + b*sqrt(2)) / d with d >= 1 in lowest terms, and <<0,0,0>> is NaN,  *)
(* <<1,0,0>> is +Infinity, <<-1,0,0>> is -Infinity.  sqrt(2) is needed for *)
(* the shear rest length (Math.sqrt(2)) and the diagonal of a grid cell.   *)
(* A square root that is not in the field is kept as a surd <<a, b, d, 0>>, *)
(* the root of (a + b*sqrt(2)) / d: it can be compared (dist > radius +    *)
(* EPS) but not computed with, and the actions are enabled only where the  *)
(* code computes with no surd.                                             *)
(***************************************************************************)
EXTENDS Integers, Sequences, FiniteSets, TLC

(***************************************************************************)
(*                              Numbers                                    *)
(***************************************************************************)
Abs(i) == IF i < 0 THEN -i ELSE i

RECURSIVE Gcd(_, _)
Gcd(i, j) == IF j = 0 THEN i ELSE Gcd(j, i % j)

NaN == <<0, 0, 0>>
PosInf == <<1, 0, 0>>
NegInf == <<-1, 0, 0>>

IsFinite(x) == x[3] # 0
IsNaN(x) == x = NaN

\* Arithmetic is defined on numbers only: on a surd it has no value (CHOOSE from
\* the empty set), so that a run that computed with one would stop with an error.

\* (a + b*sqrt2)/d in lowest terms, d >= 1
Norm(a, b, d) ==
  LET s == IF d < 0 THEN -1 ELSE 1
      g == Gcd(Gcd(Abs(a), Abs(b)), Abs(d))
  IN  <<(s * a) \div g, (s * b) \div g, (s * d) \div g>>

Num(i) == <<i, 0, 1>>
Rat(n, d) == Norm(n, 0, d)
Zero == Num(0)
One == Num(1)
Sqrt2 == <<0, 1, 1>>

\* sign of a + b*sqrt2 (sqrt2 is irrational: a*a = 2*b*b only at 0)
SignAB(a, b) ==
  IF a >= 0 /\ b >= 0 THEN (IF a = 0 /\ b = 0 THEN 0 ELSE 1)
  ELSE IF a <= 0 /\ b <= 0 THEN -1
  ELSE IF a > 0 THEN (IF a * a > 2 * b * b THEN 1 ELSE -1)
  ELSE (IF 2 * b * b > a * a THEN 1 ELSE -1)

\* sign of a number; the infinities carry their sign in the first field
Sign(x) == IF IsFinite(x) THEN SignAB(x[1], x[2]) ELSE x[1]

Neg(x) == <<-x[1], -x[2], x[3]>>

Add(x, y) ==
  IF Len(x) # 3 \/ Len(y) # 3 THEN CHOOSE z \in {} : TRUE
  ELSE IF IsNaN(x) \/ IsNaN(y) THEN NaN
  ELSE IF ~IsFinite(x) THEN (IF ~IsFinite(y) /\ y # x THEN NaN ELSE x)
  ELSE IF ~IsFinite(y) THEN y
  ELSE LET g == Gcd(x[3], y[3])
       IN  Norm(x[1] * (y[3] \div g) + y[1] * (x[3] \div g),
                x[2] * (y[3] \div g) + y[2] * (x[3] \div g),
                (x[3] \div g) * y[3])

Sub(x, y) == Add(x, Neg(y))

Mul(x, y) ==
  IF Len(x) # 3 \/ Len(y) # 3 THEN CHOOSE z \in {} : TRUE
  ELSE IF IsNaN(x) \/ IsNaN(y) THEN NaN
  ELSE IF ~IsFinite(x) \/ ~IsFinite(y)
       THEN (IF Sign(x) * Sign(y) = 0 THEN NaN
             ELSE IF Sign(x) * Sign(y) > 0 THEN PosInf ELSE NegInf)
  ELSE Norm(x[1] * y[1] + 2 * x[2] * y[2], x[1] * y[2] + x[2] * y[1], x[3] * y[3])

\* 1/x for finite x # 0: d*(a - b*sqrt2) / (a*a - 2*b*b)
Inv(x) == Norm(x[3] * x[1], -(x[3] * x[2]), x[1] * x[1] - 2 * x[2] * x[2])

Div(x, y) ==
  IF Len(x) # 3 \/ Len(y) # 3 THEN CHOOSE z \in {} : TRUE
  ELSE IF IsNaN(x) \/ IsNaN(y) THEN NaN
  ELSE IF ~IsFinite(y) THEN (IF IsFinite(x) THEN Zero ELSE NaN)
  ELSE IF Sign(y) = 0
       THEN (IF Sign(x) = 0 THEN NaN ELSE IF Sign(x) > 0 THEN PosInf ELSE NegInf)
  ELSE IF ~IsFinite(x) THEN (IF Sign(x) * Sign(y) > 0 THEN PosInf ELSE NegInf)
  ELSE Mul(x, Inv(y))

\* a surd: the square root of a non-negative number of the field that has no
\* root in the field
IsSurd(x) == Len(x) = 4
\* the square of a non-negative number or surd
Sq(x) == IF IsSurd(x) THEN <<x[1], x[2], x[3]>> ELSE Mul(x, x)

\* comparisons: any comparison with NaN is false, as for doubles
Lt(x, y) ==
  IF IsSurd(x) \/ IsSurd(y)
  THEN IF IsNaN(x) \/ IsNaN(y) THEN FALSE
       ELSE IF ~IsSurd(x) /\ Sign(x) < 0 THEN TRUE
       ELSE IF ~IsSurd(y) /\ Sign(y) <= 0 THEN FALSE
       ELSE IF ~IsSurd(y) /\ ~IsFinite(y) THEN TRUE
       ELSE IF ~IsSurd(x) /\ ~IsFinite(x) THEN FALSE
       ELSE Sign(Sub(Sq(y), Sq(x))) > 0
  ELSE ~IsNaN(x) /\ ~IsNaN(y) /\ x # y /\ Sign(Sub(y, x)) > 0
Gt(x, y) == Lt(y, x)
Le(x, y) == ~IsNaN(x) /\ ~IsNaN(y) /\ (x = y \/ Lt(x, y))
Ge(x, y) == Le(y, x)
NumEq(x, y) == ~IsNaN(x) /\ ~IsNaN(y) /\ x = y

\* largest s in lo..hi with s*s <= n (lo*lo <= n assumed)
RECURSIVE ISqrtIn(_, _, _)
ISqrtIn(n, lo, hi) ==
  IF lo >= hi THEN lo
  ELSE LET mid == (lo + hi + 1) \div 2
       IN  IF mid * mid <= n THEN ISqrtIn(n, mid, hi) ELSE ISqrtIn(n, lo, mid - 1)

ISqrt(n) == ISqrtIn(n, 0, IF n < 46340 THEN n ELSE 46340)
IsSquare(n) == n >= 0 /\ LET r == ISqrt(n) IN r * r = n

\* the root of the rational n/d in lowest terms, when the field has it:
\* n and d squares, or one of them twice a square; <<>> otherwise
RationalRoot(n, d) ==
  LET rn == ISqrt(n)
      rd == ISqrt(d)
  IN  IF rn * rn = n /\ rd * rd = d THEN Norm(rn, 0, rd)
      ELSE IF rd * rd = d /\ n % 2 = 0 /\ IsSquare(n \div 2)
           THEN Norm(0, ISqrt(n \div 2), rd)
      ELSE IF rn * rn = n /\ d % 2 = 0 /\ IsSquare(d \div 2)
           THEN Norm(0, rn, 2 * ISqrt(d \div 2))
      ELSE <<>>

\* the square root of x is a number of the field (or x is not a finite number >= 0)
HasSqrt(x) ==
  ~IsFinite(x) \/ Sign(x) < 0
  \/ (x[2] = 0 /\ RationalRoot(x[1], x[3]) # <<>>)

\* Math.sqrt
Sqrt(x) ==
  IF IsNaN(x) THEN NaN
  ELSE IF ~IsFinite(x) THEN (IF x = PosInf THEN PosInf ELSE NaN)
  ELSE IF Sign(x) < 0 THEN NaN
  ELSE IF x[2] # 0 THEN <<x[1], x[2], x[3], 0>>
  ELSE LET r == RationalRoot(x[1], x[3])
       IN  IF r # <<>> THEN r ELSE <<x[1], x[2], x[3], 0>>

\* Math.max
Max2(x, y) == IF IsNaN(x) \/ IsNaN(y) THEN NaN ELSE IF Gt(y, x) THEN y ELSE x

\* Math.min
Min2(x, y) == IF IsNaN(x) \/ IsNaN(y) THEN NaN ELSE IF Lt(y, x) THEN y ELSE x

(***************************************************************************)
(*                     THREE.Vector3 (the operations used)                 *)
(***************************************************************************)
Vec(x, y, z) == <<x, y, z>>
VecI(x, y, z) == <<Num(x), Num(y), Num(z)>>
VZero == VecI(0, 0, 0)
VAdd(a, b) == <<Add(a[1], b[1]), Add(a[2], b[2]), Add(a[3], b[3])>>
VSub(a, b) == <<Sub(a[1], b[1]), Sub(a[2], b[2]), Sub(a[3], b[3])>>
VScale(a, s) == <<Mul(a[1], s), Mul(a[2], s), Mul(a[3], s)>>
VLengthSq(a) == Add(Add(Mul(a[1], a[1]), Mul(a[2], a[2])), Mul(a[3], a[3]))
VLength(a) == Sqrt(VLengthSq(a))
DistanceTo(a, b) == VLength(VSub(a, b))
VFinite(a) == IsFinite(a[1]) /\ IsFinite(a[2]) /\ IsFinite(a[3])
\* the distance between a and b is a number of the field
InField(a, b) == HasSqrt(VLengthSq(VSub(a, b)))

(***************************************************************************)
(*                          Particle (js/particle.js)                      *)
(***************************************************************************)
PlaneWidth == 500
PlaneHeight == 500
PlaneY == 125

\* plane(500, 500): the position of the grid point (u, v), u and v in [0, 1]
initParameterizedPosition(u, v) ==
  Vec(Sub(Mul(u, Num(PlaneWidth)), Rat(PlaneWidth, 2)),
      Num(PlaneY),
      Sub(Mul(v, Num(PlaneHeight)), Rat(PlaneHeight, 2)))

Particle(x, y, mass) ==
  [position |-> initParameterizedPosition(x, y),
   previous |-> initParameterizedPosition(x, y),
   original |-> initParameterizedPosition(x, y),
   netForce |-> VZero,
   mass     |-> mass]

\* lockToOriginal copying the wrong way: the rest position takes the position
lockToOriginalReversed(p) ==
  [p EXCEPT !.original = p.position, !.previous = p.position]

\* Particle.prototype.lockToOriginal
lockToOriginal(p) ==
  [p EXCEPT !.position = p.original, !.previous = p.original]

\* Particle.prototype.lock: previous.copy(previous) changes nothing
lock(p) == [p EXCEPT !.position = p.previous]

addForce(p, force) == [p EXCEPT !.netForce = VAdd(p.netForce, force)]

\* integrate with the saved position taken after the update instead of before it
integratePrevAfterUpdate(p, deltaT, DAMPING) ==
  LET velocity == VSub(p.position, p.previous)
      accel    == VScale(p.netForce, Div(Mul(deltaT, deltaT), p.mass))
      newPos   == VAdd(VAdd(p.position, VScale(velocity, Sub(One, DAMPING))), accel)
  IN  [p EXCEPT !.position = newPos, !.previous = newPos, !.netForce = VZero]

\* Verlet integration
integrate(p, deltaT, DAMPING) ==
  LET oldPos   == p.position
      velocity == VSub(p.position, p.previous)
      accel    == VScale(p.netForce, Div(Mul(deltaT, deltaT), p.mass))
  IN  [p EXCEPT !.position = VAdd(VAdd(p.position, VScale(velocity, Sub(One, DAMPING))),
                                  accel),
                !.previous = oldPos,
                !.netForce = VZero]

\* the floor clamp without the clearance
handleFloorNoClearance(p, floorY) ==
  IF Lt(p.position[2], floorY)
  THEN [p EXCEPT !.position[2] = floorY]
  ELSE p

\* the floor clamp applied whether the particle is within reach of the floor or not
handleFloorUnconditional(p, floorY) ==
  [p EXCEPT !.position[2] = Add(floorY, Num(3))]

FloorEPS == 3

handleFloorCollision(p, floorY) ==
  IF Lt(Sub(p.position[2], floorY), Num(FloorEPS))
  THEN [p EXCEPT !.position[2] = Add(floorY, Num(FloorEPS))]
  ELSE p

SphereEPS == 5

\* sphere: [visible, position, prevPosition, radius]
handleSphereCollision(p, sphere, friction) ==
  IF ~sphere.visible THEN p
  ELSE
   LET shell == Add(sphere.radius, Num(SphereEPS))
       dist  == DistanceTo(sphere.position, p.position)
   IN  IF Gt(dist, shell) THEN p
       ELSE
        LET scale         == Div(shell, dist)
            posNoFriction == VAdd(VScale(VSub(p.position, sphere.position), scale),
                                  sphere.position)
        IN  IF Gt(DistanceTo(p.previous, sphere.position), shell) /\ friction # Zero
            THEN LET posFriction ==
                       VScale(VSub(VAdd(p.previous, sphere.position), sphere.prevPosition),
                              friction)
                 IN  [p EXCEPT !.position =
                         VAdd(posFriction, VScale(posNoFriction, Sub(One, friction)))]
            ELSE [p EXCEPT !.position = posNoFriction]

BoxEPS == 10

\* THREE.Box3: [min, max]
expandByScalar(b, s) ==
  [min |-> VSub(b.min, Vec(s, s, s)), max |-> VAdd(b.max, Vec(s, s, s))]

containsPoint(b, pt) ==
  ~(\E i \in 1..3 : Lt(pt[i], b.min[i]) \/ Gt(pt[i], b.max[i]))

\* handleBoxCollision testing the previous position against the box itself,
\* not against the box expanded by EPS
handleBoxPreviousUnexpanded(p, box, friction) ==
  IF ~box.visible THEN p
  ELSE
   LET boundingBox == expandByScalar(box.boundingBox, Num(BoxEPS))
       xMaxDist == Sub(boundingBox.max[1], p.position[1])
       xMinDist == Sub(p.position[1], boundingBox.min[1])
       yMaxDist == Sub(boundingBox.max[2], p.position[2])
       yMinDist == Sub(p.position[2], boundingBox.min[2])
       zMaxDist == Sub(boundingBox.max[3], p.position[3])
       zMinDist == Sub(p.position[3], boundingBox.min[3])
   IN  IF \/ Lt(xMaxDist, Zero) \/ Lt(xMinDist, Zero) \/ Lt(yMaxDist, Zero)
          \/ Lt(yMinDist, Zero) \/ Lt(zMaxDist, Zero) \/ Lt(zMinDist, Zero)
       THEN p
       ELSE
        LET minDist == Min2(Min2(Min2(xMaxDist, xMinDist), Min2(yMaxDist, yMinDist)),
                            Min2(zMaxDist, zMinDist))
            snapped ==
              IF NumEq(xMaxDist, minDist) THEN [p.position EXCEPT ![1] = boundingBox.max[1]]
              ELSE IF NumEq(xMinDist, minDist) THEN [p.position EXCEPT ![1] = boundingBox.min[1]]
              ELSE IF NumEq(yMaxDist, minDist) THEN [p.position EXCEPT ![2] = boundingBox.max[2]]
              ELSE IF NumEq(yMinDist, minDist) THEN [p.position EXCEPT ![2] = boundingBox.min[2]]
              ELSE IF NumEq(zMaxDist, minDist) THEN [p.position EXCEPT ![3] = boundingBox.max[3]]
              ELSE IF NumEq(zMinDist, minDist) THEN [p.position EXCEPT ![3] = boundingBox.min[3]]
              ELSE p.position
        IN  IF ~containsPoint(box.boundingBox, p.previous)
            THEN [p EXCEPT !.position =
                    VAdd(VScale(snapped, Sub(One, friction)), VScale(p.previous, friction))]
            ELSE [p EXCEPT !.position = snapped]

\* box: [visible, boundingBox]
handleBoxCollision(p, box, friction) ==
  IF ~box.visible THEN p
  ELSE
   LET boundingBox == expandByScalar(box.boundingBox, Num(BoxEPS))
       xMaxDist == Sub(boundingBox.max[1], p.position[1])
       xMinDist == Sub(p.position[1], boundingBox.min[1])
       yMaxDist == Sub(boundingBox.max[2], p.position[2])
       yMinDist == Sub(p.position[2], boundingBox.min[2])
       zMaxDist == Sub(boundingBox.max[3], p.position[3])
       zMinDist == Sub(p.position[3], boundingBox.min[3])
   IN  IF \/ Lt(xMaxDist, Zero) \/ Lt(xMinDist, Zero) \/ Lt(yMaxDist, Zero)
          \/ Lt(yMinDist, Zero) \/ Lt(zMaxDist, Zero) \/ Lt(zMinDist, Zero)
       THEN p
       ELSE
        LET minDist == Min2(Min2(Min2(xMaxDist, xMinDist), Min2(yMaxDist, yMinDist)),
                            Min2(zMaxDist, zMinDist))
            snapped ==
              IF NumEq(xMaxDist, minDist) THEN [p.position EXCEPT ![1] = boundingBox.max[1]]
              ELSE IF NumEq(xMinDist, minDist) THEN [p.position EXCEPT ![1] = boundingBox.min[1]]
              ELSE IF NumEq(yMaxDist, minDist) THEN [p.position EXCEPT ![2] = boundingBox.max[2]]
              ELSE IF NumEq(yMinDist, minDist) THEN [p.position EXCEPT ![2] = boundingBox.min[2]]
              ELSE IF NumEq(zMaxDist, minDist) THEN [p.position EXCEPT ![3] = boundingBox.max[3]]
              ELSE IF NumEq(zMinDist, minDist) THEN [p.position EXCEPT ![3] = boundingBox.min[3]]
              ELSE p.position
        IN  IF ~containsPoint(boundingBox, p.previous)
            THEN [p EXCEPT !.position =
                    VAdd(VScale(snapped, Sub(One, friction)), VScale(p.previous, friction))]
            ELSE [p EXCEPT !.position = snapped]

(***************************************************************************)
(*                               Constraint                                *)
(***************************************************************************)
VNaN == Vec(NaN, NaN, NaN)

\* What Vector3.normalize leaves in a zero vector depends on the three.js build:
\* divideScalar(length() || 1) leaves it zero, divideScalar(length()) makes it NaN.
ZeroNormals == {VZero, VNaN}

\* THREE.Vector3.normalize; zeroNormal is the build's result for the zero vector
normalize(v, zeroNormal) ==
  LET length == VLength(v)
  IN  IF length = Zero THEN zeroNormal ELSE VScale(v, Div(One, length))

\* Constraint(p1, p2, distance), p1 and p2 indices into the particles
Constraint(p1, p2, distance) == [p1 |-> p1, p2 |-> p2, distance |-> distance]

\* enforce with the whole error applied to each particle (the halving forgotten)
enforceFullError(ps, c, zeroNormal) ==
  LET AB     == VSub(ps[c.p2].position, ps[c.p1].position)
      dist   == VLength(AB)
      v_corr == VScale(normalize(AB, zeroNormal), Sub(dist, c.distance))
  IN  [ps EXCEPT ![c.p1].position = VAdd(ps[c.p1].position, v_corr),
                 ![c.p2].position = VSub(ps[c.p2].position, v_corr)]

\* Constraint.prototype.enforce on the particles ps
enforce(ps, c, zeroNormal) ==
  LET AB     == VSub(ps[c.p2].position, ps[c.p1].position)
      dist   == VLength(AB)
      v_corr == VScale(normalize(AB, zeroNormal), Div(Sub(dist, c.distance), Num(2)))
  IN  [ps EXCEPT ![c.p1].position = VAdd(ps[c.p1].position, v_corr),
                 ![c.p2].position = VSub(ps[c.p2].position, v_corr)]

\* the distance enforce takes is a number of the field
ConstraintInField(ps, c) ==
  VFinite(ps[c.p1].position) /\ VFinite(ps[c.p2].position)
  /\ InField(ps[c.p2].position, ps[c.p1].position)

(***************************************************************************)
(*                       Cloth: the constructor                            *)
(***************************************************************************)
\* index(u, v) of a cloth cw segments wide
index(u, v, cw) == u + v * (cw + 1)

\* the particles of a cw x ch cloth: a (cw+1) x (ch+1) grid, row by row
ClothParticles(cw, ch, MASS) ==
  [k \in 0..((cw + 1) * (ch + 1) - 1) |->
     Particle(Rat(k % (cw + 1), cw), Rat(k \div (cw + 1), ch), MASS)]

\* A new Constraint object; obj is its identity (its allocation number).
\* guarded: the push is guarded by !constraints.includes(constraint).
NewConstraint(p1, p2, distance, guarded) ==
  [p1 |-> p1, p2 |-> p2, distance |-> distance, guarded |-> guarded]

\* Array.prototype.includes on objects compares references: obj is the identity
includes(list, obj) == \E k \in 1..Len(list) : list[k].obj = obj

\* the constructor's loops "for v in 0..ch, for u in 0..cw" over a body:
\* Body[u, v] is the constraints the body creates at (u, v), in order
RECURSIVE GridLoop(_, _, _, _)
GridLoop(Body, cw, ch, k) ==
  IF k >= (cw + 1) * (ch + 1) THEN <<>>
  ELSE Body[k % (cw + 1), k \div (cw + 1)] \o GridLoop(Body, cw, ch, k + 1)

\* the Constraint objects the constructor creates, in creation order
Created(cw, ch, P) ==
  LET restDistance  == Div(P.fabricLength, Num(cw))
      restDistanceB == Num(2)
      restDistanceS == Sqrt2
      Edge == [u \in 0..cw, v \in 0..ch |->
        (IF v < ch /\ (u = 0 \/ u = cw)
         THEN <<NewConstraint(index(u, v, cw), index(u, v + 1, cw), restDistance, FALSE)>>
         ELSE <<>>)
        \o (IF u < cw /\ (v = 0 \/ v = ch)
            THEN <<NewConstraint(index(u, v, cw), index(u + 1, v, cw), restDistance, FALSE)>>
            ELSE <<>>)]
      Structural == [u \in 0..cw, v \in 0..ch |->
        (IF v < ch
         THEN <<NewConstraint(index(u, v, cw), index(u, v + 1, cw), restDistance, TRUE)>>
         ELSE <<>>)
        \o (IF u < cw
            THEN <<NewConstraint(index(u, v, cw), index(u + 1, v, cw), restDistance, TRUE)>>
            ELSE <<>>)]
      Shear == [u \in 0..cw, v \in 0..ch |->
        IF v < ch /\ u < cw
        THEN <<NewConstraint(index(u, v, cw), index(u + 1, v + 1, cw),
                             Mul(restDistance, restDistanceS), TRUE),
               NewConstraint(index(u + 1, v, cw), index(u, v + 1, cw),
                             Mul(restDistance, restDistanceS), TRUE)>>
        ELSE <<>>]
      Bending == [u \in 0..cw, v \in 0..ch |->
        (IF v < ch - 1
         THEN <<NewConstraint(index(u, v, cw), index(u, v + 2, cw),
                              Mul(restDistance, restDistanceB), TRUE)>>
         ELSE <<>>)
        \o (IF u < cw - 1
            THEN <<NewConstraint(index(u, v, cw), index(u + 2, v, cw),
                                 Mul(restDistance, restDistanceB), TRUE)>>
            ELSE <<>>)]
  IN  GridLoop(Edge, cw, ch, 0)
      \o (IF P.structuralSprings THEN GridLoop(Structural, cw, ch, 0) ELSE <<>>)
      \o (IF P.shearSprings THEN GridLoop(Shear, cw, ch, 0) ELSE <<>>)
      \o (IF P.bendingSprings THEN GridLoop(Bending, cw, ch, 0) ELSE <<>>)

\* the pushes: the k-th created object is pushed unless its guard finds it in the list
RECURSIVE PushAll(_, _, _)
PushAll(created, k, list) ==
  IF k > Len(created) THEN list
  ELSE LET c == [p1 |-> created[k].p1, p2 |-> created[k].p2,
                 distance |-> created[k].distance, obj |-> k]
       IN  IF created[k].guarded /\ includes(list, c.obj)
           THEN PushAll(created, k + 1, list)
           ELSE PushAll(created, k + 1, Append(list, c))

\* function Cloth(w, h, l): this.particles and this.constraints
Cloth(cw, ch, P) ==
  [particles   |-> ClothParticles(cw, ch, P.MASS),
   constraints |-> PushAll(Created(cw, ch, P), 1, <<>>)]

(***************************************************************************)
(*                     Cloth: forces and impulses                          *)
(***************************************************************************)
\* The result of a routine that may throw: the particles as it left them, and
\* whether it returned (ok) or threw a TypeError on a missing particle.
Returned(ps) == [ps |-> ps, ok |-> TRUE]
Threw(ps) == [ps |-> ps, ok |-> FALSE]

applyGravity(ps, GRAVITY) ==
  [i \in DOMAIN ps |->
     addForce(ps[i], Vec(Zero, Mul(Neg(GRAVITY), ps[i].mass), Zero))]

\* Scene.cloth.geometry.faces: the two triangles of every grid cell
ClothFaces(cw, ch) ==
  LET Cell == [u \in 0..cw, v \in 0..ch |->
        IF u < cw /\ v < ch
        THEN <<[a |-> index(u, v, cw), b |-> index(u + 1, v, cw), c |-> index(u, v + 1, cw)],
               [a |-> index(u + 1, v, cw), b |-> index(u + 1, v + 1, cw),
                c |-> index(u, v + 1, cw)]>>
        ELSE <<>>]
  IN  GridLoop(Cell, cw, ch, 0)

\* applyWind: tmpForce is the force of a face (its normal scaled by normal.windForce)
RECURSIVE applyWind(_, _, _, _)
applyWind(ps, faces, k, tmpForce) ==
  IF k > Len(faces) THEN ps
  ELSE applyWind([ps EXCEPT ![faces[k].a] = addForce(@, tmpForce),
                            ![faces[k].b] = addForce(ps[faces[k].b], tmpForce),
                            ![faces[k].c] = addForce(ps[faces[k].c], tmpForce)],
                 faces, k + 1, tmpForce)

\* particles[idx].position.y += dy for each <<idx, dy>> of targets, in order;
\* a missing particles[idx] throws
RECURSIVE MoveHeights(_, _, _)
MoveHeights(ps, targets, k) ==
  IF k > Len(targets) THEN Returned(ps)
  ELSE IF targets[k][1] \notin DOMAIN ps THEN Threw(ps)
  ELSE MoveHeights([ps EXCEPT ![targets[k][1]].position[2] = Add(@, targets[k][2])],
                   targets, k + 1)

\* the particle at the hit and its in-grid neighbours, in the order of the code
Splash(hit, cw, ch, centre, around) ==
  LET x == hit[1]
      y == hit[2]
      At(cond, u, v) == IF cond THEN <<<<index(u, v, cw), around>>>> ELSE <<>>
  IN  <<<<index(x, y, cw), centre>>>>
      \o At(x > 0, x - 1, y) \o At(x < cw, x + 1, y)
      \o At(y > 0, x, y - 1) \o At(y < ch, x, y + 1)
      \o At(x > 0 /\ y > 0, x - 1, y - 1) \o At(x > 0 /\ y < ch, x - 1, y + 1)
      \o At(x < cw /\ y > 0, x + 1, y - 1) \o At(x < cw /\ y < ch, x + 1, y + 1)

\* applyRain(strength, rate); hits[i+1] is what Sim.randomCoord() returns for drop i
RECURSIVE applyRain(_, _, _, _, _, _, _)
applyRain(ps, cw, ch, strength, rate, hits, i) ==
  IF i >= rate THEN Returned(ps)
  ELSE IF 0 <= i /\ i < Cardinality(DOMAIN ps)
       THEN LET r == MoveHeights(ps, Splash(hits[i + 1], cw, ch, Neg(strength),
                                            Neg(Mul(strength, Rat(1, 10)))), 1)
            IN  IF r.ok THEN applyRain(r.ps, cw, ch, strength, rate, hits, i + 1) ELSE r
       ELSE applyRain(ps, cw, ch, strength, rate, hits, i + 1)

\* applyWave: y is amplitude * Math.sin(frequency / 1000 * time)
RECURSIVE applyWave(_, _, _, _)
applyWave(ps, cw, y, i) ==
  IF i > cw THEN Returned(ps)
  ELSE IF index(0, i, cw) \notin DOMAIN ps THEN Threw(ps)
  ELSE LET particle == ps[index(0, i, cw)]
           moved    == VAdd(particle.original, Vec(Zero, y, Zero))
       IN  applyWave([ps EXCEPT ![index(0, i, cw)].previous = moved,
                                ![index(0, i, cw)].position = moved],
                     cw, y, i + 1)

\* applyCustom(strength, rate); t is Math.round(time / 100)
applyCustom(ps, cw, ch, strength, t) ==
  IF t >= 0 /\ t <= cw /\ t <= ch
  THEN LET divided == [ps EXCEPT ![index(t, t, cw)].position[2] = Div(@, strength)]
       IN  MoveHeights(divided, Tail(Splash(<<t, t>>, cw, ch, Zero,
                                            Mul(strength, Rat(1, 10)))), 1)
  ELSE Returned(ps)

\* null: getLookedAtParticle found no face of the cloth under the cursor
NoParticle == -1

\* getLookedAtParticle: the particle at corner a of the face the ray hits;
\* hitFace is the number of that face in faces, 0 when the ray hits no face
getLookedAtParticle(faces, hitFace) ==
  IF hitFace = 0 THEN NoParticle ELSE faces[hitFace].a

\* the impulse of handleImpactEvents: scale * keyMap[key]
ImpactScale == 30
keyMap(keyCode) ==
  CASE keyCode = 37 -> VecI(-1, 0, 0)
    [] keyCode = 38 -> VecI(0, 1, 0)
    [] keyCode = 39 -> VecI(1, 0, 0)
    [] keyCode = 40 -> VecI(0, -1, 0)

\* handleImpactEvents(event); inInput: the key was typed into a text box;
\* particle: what cloth.getLookedAtParticle() returned
handleImpactEvents(ps, particle, keyCode, inInput) ==
  IF inInput THEN Returned(ps)
  ELSE IF keyCode \notin {37, 38, 39, 40} THEN Returned(ps)
  ELSE IF particle = NoParticle THEN Threw(ps)
  ELSE Returned([ps EXCEPT ![particle].position =
                   VAdd(ps[particle].original,
                        VScale(keyMap(keyCode), Num(ImpactScale)))])

\* applyForces; in: what the step reads from outside the cloth
\* (wind: the face force, hits: the rain drops, y: the wave offset, t: the custom cell)
applyForces(ps, cw, ch, P, in) ==
  LET Gravity(q) == Returned(IF P.gravity THEN applyGravity(q, P.GRAVITY) ELSE q)
      Wind(q)    == Returned(IF P.wind THEN applyWind(q, ClothFaces(cw, ch), 1, in.wind)
                             ELSE q)
      Rain(q)    == IF P.rain
                    THEN applyRain(q, cw, ch, P.rainStrength, P.rainRate, in.hits, 0)
                    ELSE Returned(q)
      Wave(q)    == IF P.wave THEN applyWave(q, cw, in.y, 0) ELSE Returned(q)
      Custom(q)  == IF P.customForce THEN applyCustom(q, cw, ch, P.customFStrength, in.t)
                    ELSE Returned(q)
      \* each generator runs unless an earlier one threw
      r1 == Gravity(ps)
      r2 == IF r1.ok THEN Wind(r1.ps) ELSE r1
      r3 == IF r2.ok THEN Rain(r2.ps) ELSE r2
      r4 == IF r3.ok THEN Wave(r3.ps) ELSE r3
  IN  IF r4.ok THEN Custom(r4.ps) ELSE r4

\* Cloth.prototype.update
update(ps, deltaT, P) ==
  IF ~P.integrate THEN ps
  ELSE [i \in DOMAIN ps |-> integrate(ps[i], deltaT, P.DAMPING)]

(***************************************************************************)
(*                  Cloth: collisions and constraints                      *)
(***************************************************************************)
\* the body of handleCollisions' loop: floor, then sphere, then box
\* (sc: Scene, friction: SceneParams.friction as the handlers read it)
handleCollisions(ps, sc, friction) ==
  [i \in DOMAIN ps |->
     handleBoxCollision(
       handleSphereCollision(handleFloorCollision(ps[i], sc.ground),
                             sc.sphere, friction),
       sc.box, friction)]

\* Cloth.prototype.enforceConstraints: constraints[k].enforce() for k, k+1, ...
RECURSIVE enforceConstraints(_, _, _, _)
enforceConstraints(ps, cs, k, zeroNormal) ==
  IF k > Len(cs) THEN ps
  ELSE enforceConstraints(enforce(ps, cs[k], zeroNormal), cs, k + 1, zeroNormal)

\* every distance enforceConstraints takes on its way is a number of the field
RECURSIVE EnforceInField(_, _, _, _)
EnforceInField(ps, cs, k, zeroNormal) ==
  IF k > Len(cs) THEN TRUE
  ELSE IF ~ConstraintInField(ps, cs[k]) THEN FALSE
  ELSE EnforceInField(enforce(ps, cs[k], zeroNormal), cs, k + 1, zeroNormal)

(***************************************************************************)
(*                               State                                     *)
(***************************************************************************)
VARIABLES
  w, h,         \* cloth.w, cloth.h: segments width-wise and height-wise
  particles,    \* cloth.particles: [0..n-1 -> Particle]
  constraints,  \* cloth.constraints: sequence of [p1, p2, distance], p1 and p2 indices
  params,       \* SceneParams
  scene,        \* Scene: ground height, sphere, box
  ops,          \* the operations applied so far, in order
  pre           \* the particles as they were before the last operation

vars == <<w, h, particles, constraints, params, scene, ops, pre>>

MaxCalls == 2

LastOp == IF Len(ops) = 0 THEN [name |-> "none"] ELSE ops[Len(ops)]
LastTwoAre(n) ==
  Len(ops) >= 2 /\ ops[Len(ops)].name = n /\ ops[Len(ops) - 1].name = n

DefaultParams ==
  [DAMPING |-> Zero, friction |-> Zero, MASS |-> One, GRAVITY |-> Zero,
   fabricLength |-> Num(PlaneWidth),
   structuralSprings |-> TRUE, shearSprings |-> TRUE, bendingSprings |-> TRUE,
   integrate |-> TRUE, gravity |-> FALSE, wind |-> FALSE, rain |-> FALSE,
   wave |-> FALSE, customForce |-> FALSE,
   TIMESTEP |-> One, rainStrength |-> Num(6), rainRate |-> 1,
   customFStrength |-> Num(5)]

NoSphere ==
  [visible |-> FALSE, position |-> VZero, prevPosition |-> VZero, radius |-> Num(5)]
NoBox ==
  [visible |-> FALSE, boundingBox |-> [min |-> VecI(35, -5, -8), max |-> VecI(45, 5, 8)]]
DefaultScene == [ground |-> Num(-249), sphere |-> NoSphere, box |-> NoBox]

\* one particle, as the constructor makes it, moved to the given state
OneParticle(pos, prev, force, mass) ==
  [i \in {0} |-> [Particle(Zero, Zero, mass) EXCEPT
                    !.position = pos, !.previous = prev, !.netForce = force]]

(***************************************************************************)
(*        Particle.addForce and Particle.integrate on one particle         *)
(***************************************************************************)
IntegratePositions == {VecI(0, 100, 0), VecI(3, 125, -4), VecI(-250, 0, 250)}
IntegrateVelocities == {VecI(0, 0, 0), VecI(0, -2, 0), VecI(4, 1, -6)}
Forces == {VZero, Vec(Zero, Rat(-49, 5), Zero), VecI(2, -3, 1)}
Masses == {One, Num(2)}
Dampings == {Zero, Rat(3, 100), Rat(1, 2)}
TimeSteps == {One, Rat(1, 2)}

InitIntegrate ==
  /\ w = 0 /\ h = 0
  /\ constraints = <<>>
  /\ \E pos \in IntegratePositions, v \in IntegrateVelocities, f \in Forces, m \in Masses :
        particles = OneParticle(pos, VSub(pos, v), f, m)
  /\ \E d \in Dampings : params = [DefaultParams EXCEPT !.DAMPING = d]
  /\ scene = DefaultScene
  /\ ops = <<>>
  /\ pre = particles

AddForce ==
  /\ Len(ops) < MaxCalls
  /\ \E f \in Forces :
       /\ particles' = [i \in DOMAIN particles |-> addForce(particles[i], f)]
       /\ ops' = Append(ops, [name |-> "addForce", arg |-> f])
  /\ pre' = particles
  /\ UNCHANGED <<w, h, constraints, params, scene>>

Integrate ==
  /\ Len(ops) < MaxCalls
  /\ \E dt \in TimeSteps :
       /\ particles' = [i \in DOMAIN particles |->
                          integrate(particles[i], dt, params.DAMPING)]
       /\ ops' = Append(ops, [name |-> "integrate", arg |-> dt])
  /\ pre' = particles
  /\ UNCHANGED <<w, h, constraints, params, scene>>

NextIntegrate == AddForce \/ Integrate

SpecIntegrate == InitIntegrate /\ [][NextIntegrate]_vars

(***************************************************************************)
(*      The three collision routines on one particle (js/particle.js)      *)
(***************************************************************************)
\* positions around the sphere (centre at the origin, radius 5), the box
\* (35..45, -5..5, -8..8) and the floor
CollidePositions ==
  { VecI(0, 0, 0), VecI(4, 0, 0), VecI(6, 8, 0), VecI(3, 4, 0), VecI(1, 1, 0),
    VecI(12, 0, 0), VecI(0, -4, 0), VecI(0, 0, -9),
    VecI(0, 2, 0), VecI(0, -30, 0), VecI(0, -17, 0),
    VecI(54, 0, 0), VecI(26, 0, 0), VecI(40, 14, 0), VecI(40, -14, 1), VecI(40, 0, 17),
    VecI(40, 0, -17), VecI(40, 0, 0), VecI(55, 0, 0), VecI(56, 0, 0), VecI(30, 12, 0) }
CollidePrevious ==
  { VecI(4, 0, 0), VecI(12, 0, 0), VecI(-12, 0, 0),
    VecI(40, 0, 0), VecI(60, 0, 0), VecI(20, 0, 0), VecI(40, 12, 0) }
Frictions == {Zero, Rat(1, 2), One}
GroundHeights == {Num(0), Num(-20)}
Spheres ==
  {NoSphere} \cup
  {[NoSphere EXCEPT !.visible = TRUE, !.prevPosition = pp] :
     pp \in {VZero, VecI(12, 0, 0)}}
Boxes == {NoBox, [NoBox EXCEPT !.visible = TRUE]}

InitCollide ==
  /\ w = 0 /\ h = 0
  /\ constraints = <<>>
  /\ \E pos \in CollidePositions, prev \in CollidePrevious :
        particles = OneParticle(pos, prev, VZero, One)
  /\ \E f \in Frictions : params = [DefaultParams EXCEPT !.friction = f]
  /\ \E g \in GroundHeights, s \in Spheres, b \in Boxes :
        scene = [ground |-> g, sphere |-> s, box |-> b]
  /\ ops = <<>>
  /\ pre = particles

HandleFloor ==
  /\ Len(ops) < MaxCalls
  /\ particles' = [i \in DOMAIN particles |->
                     handleFloorCollision(particles[i], scene.ground)]
  /\ ops' = Append(ops, [name |-> "floor"])
  /\ pre' = particles
  /\ UNCHANGED <<w, h, constraints, params, scene>>

\* handleSphereCollision computes with the distance only of a particle within
\* radius + EPS: that distance is a number of the field
SphereInField(p, sphere) ==
  (sphere.visible
   /\ Le(VLengthSq(VSub(p.position, sphere.position)),
         Sq(Add(sphere.radius, Num(SphereEPS)))))
  => InField(p.position, sphere.position)

HandleSphere ==
  /\ Len(ops) < MaxCalls
  /\ \A i \in DOMAIN particles : SphereInField(particles[i], scene.sphere)
  /\ particles' = [i \in DOMAIN particles |->
                     handleSphereCollision(particles[i], scene.sphere, params.friction)]
  /\ ops' = Append(ops, [name |-> "sphere"])
  /\ pre' = particles
  /\ UNCHANGED <<w, h, constraints, params, scene>>

HandleBox ==
  /\ Len(ops) < MaxCalls
  /\ particles' = [i \in DOMAIN particles |->
                     handleBoxCollision(particles[i], scene.box, params.friction)]
  /\ ops' = Append(ops, [name |-> "box"])
  /\ pre' = particles
  /\ UNCHANGED <<w, h, constraints, params, scene>>

NextCollide == HandleFloor \/ HandleSphere \/ HandleBox

SpecCollide == InitCollide /\ [][NextCollide]_vars

(***************************************************************************)
(*            Constraint.enforce on two particles and one constraint       *)
(***************************************************************************)
PairOrigins == {VecI(0, 125, 0), VecI(-250, 125, -250)}
PairOffsets ==
  { VecI(3, 4, 0), VecI(10, 0, 0), VecI(0, 0, -4), VecI(1, 1, 0), VecI(-6, 0, 8),
    VecI(2, 1, 2), VecI(0, 0, 0) }
RestLengths == {Num(5), Num(10), Rat(5, 2), Mul(Num(5), Sqrt2)}

InitConstraint ==
  /\ w = 0 /\ h = 0
  /\ \E a \in PairOrigins, ab \in PairOffsets, m \in Masses :
        particles = [i \in {0, 1} |->
                       [Particle(Zero, Zero, m) EXCEPT
                          !.position = IF i = 0 THEN a ELSE VAdd(a, ab),
                          !.previous = a]]
  /\ \E r \in RestLengths : constraints = <<Constraint(0, 1, r)>>
  /\ \E d \in Dampings : params = [DefaultParams EXCEPT !.DAMPING = d]
  /\ scene = DefaultScene
  /\ ops = <<>>
  /\ pre = particles

Enforce ==
  /\ Len(ops) < MaxCalls
  /\ ConstraintInField(particles, constraints[1])
  /\ \E z \in ZeroNormals :
       particles' = enforce(particles, constraints[1], z)
  /\ ops' = Append(ops, [name |-> "enforce", rest |-> constraints[1].distance])
  /\ pre' = particles
  /\ UNCHANGED <<w, h, constraints, params, scene>>

NextConstraint == Enforce

SpecConstraint == InitConstraint /\ [][NextConstraint]_vars

(***************************************************************************)
(*                    The Cloth constructor on every grid                  *)
(***************************************************************************)
MaxGrid == 3

\* SceneParams.MASS and SceneParams.fabricLength: valid, zero, negative
ConfigMasses == {One, Zero, Num(-1)}
ConfigLengths == {Num(PlaneWidth), Num(-500)}

InitTopology ==
  /\ w \in 1..MaxGrid /\ h \in 1..MaxGrid
  /\ particles = <<>>
  /\ constraints = <<>>
  /\ \E st \in BOOLEAN, sh \in BOOLEAN, be \in BOOLEAN,
        mass \in ConfigMasses, l \in ConfigLengths :
        params = [DefaultParams EXCEPT !.structuralSprings = st,
                                       !.shearSprings = sh,
                                       !.bendingSprings = be,
                                       !.MASS = mass, !.fabricLength = l]
  /\ scene = DefaultScene
  /\ ops = <<>>
  /\ pre = particles

Construct ==
  /\ ops = <<>>
  /\ particles' = Cloth(w, h, params).particles
  /\ constraints' = Cloth(w, h, params).constraints
  /\ ops' = <<[name |-> "Cloth", threw |-> FALSE]>>
  /\ pre' = particles
  /\ UNCHANGED <<w, h, params, scene>>

NextTopology == Construct

SpecTopology == InitTopology /\ [][NextTopology]_vars

(***************************************************************************)
(*          Simulation steps: applyForces followed by update               *)
(***************************************************************************)
MaxSteps == 2

ForceGrids == {<<1, 1>>, <<1, 2>>, <<2, 1>>}
WindForces == {VecI(1, 2, 0)}
WaveOffsets == {Zero, Num(7)}
CustomCells == {1, 1000}

StepsDone == Cardinality({k \in 1..Len(ops) : ops[k].name = "applyForces"})

InitForces ==
  /\ \E g \in ForceGrids : w = g[1] /\ h = g[2]
  /\ \E gr \in BOOLEAN, wi \in BOOLEAN, ra \in BOOLEAN, wa \in BOOLEAN,
        cu \in BOOLEAN, int \in BOOLEAN :
        params = [DefaultParams EXCEPT !.gravity = gr, !.wind = wi, !.rain = ra,
                                       !.wave = wa, !.customForce = cu,
                                       !.integrate = int,
                                       !.GRAVITY = Rat(49, 5), !.DAMPING = Rat(1, 2)]
  /\ particles = Cloth(w, h, params).particles
  /\ constraints = Cloth(w, h, params).constraints
  /\ scene = DefaultScene
  /\ ops = <<>>
  /\ pre = particles

\* the first half of a step; a TypeError thrown inside ends the run
ApplyForces ==
  /\ StepsDone < MaxSteps
  /\ LastOp.name \in {"none", "update", "setIntegrate", "handleCollisions"}
  /\ \E wind \in (IF params.wind THEN WindForces ELSE {VZero}),
        hit \in (IF params.rain THEN (0..w) \X (0..h) ELSE {<<0, 0>>}),
        y \in (IF params.wave THEN WaveOffsets ELSE {Zero}),
        t \in (IF params.customForce THEN CustomCells ELSE {0}) :
       LET r == applyForces(particles, w, h, params,
                            [wind |-> wind, hits |-> <<hit>>, y |-> y, t |-> t])
       IN  /\ particles' = r.ps
           /\ ops' = Append(ops, [name |-> "applyForces", threw |-> ~r.ok])
  /\ pre' = particles
  /\ UNCHANGED <<w, h, constraints, params, scene>>

\* the second half of a step: cloth.update(TIMESTEP)
Update ==
  /\ LastOp.name = "applyForces" /\ ~LastOp.threw
  /\ particles' = update(particles, params.TIMESTEP, params)
  /\ ops' = Append(ops, [name |-> "update"])
  /\ pre' = particles
  /\ UNCHANGED <<w, h, constraints, params, scene>>

\* the GUI switches integration on or off between two steps
SetIntegrate ==
  /\ LastOp.name = "update"
  /\ StepsDone < MaxSteps
  /\ params' = [params EXCEPT !.integrate = ~@]
  /\ ops' = Append(ops, [name |-> "setIntegrate"])
  /\ UNCHANGED <<w, h, particles, constraints, scene, pre>>

NextForces == ApplyForces \/ Update \/ SetIntegrate

SpecForces == InitForces /\ [][NextForces]_vars

(***************************************************************************)
(*   Whole steps on a cloth with every generator off and zero gravity:     *)
(*   applyForces, update, enforceConstraints, handleCollisions             *)
(***************************************************************************)
\* w = h on the 500 x 500 plane with fabricLength 500 is a cloth built at rest;
\* <<1, 2>> is built stretched
RestGrids == {<<1, 1>>, <<2, 2>>, <<1, 2>>}

\* a sphere and a box below the cloth, touching no particle
FarSphere ==
  [visible |-> TRUE, position |-> VecI(0, 0, 0), prevPosition |-> VecI(0, 0, 0),
   radius |-> Num(100)]
FarBox ==
  [visible |-> TRUE, boundingBox |-> [min |-> VecI(35, -5, -8), max |-> VecI(45, 5, 8)]]
\* a sphere and a box around a corner of the cloth
NearSphere ==
  [visible |-> TRUE, position |-> VecI(-250, 128, -250),
   prevPosition |-> VecI(-250, 128, -250), radius |-> Num(20)]
NearBox ==
  [visible |-> TRUE,
   boundingBox |-> [min |-> VecI(240, 100, 240), max |-> VecI(300, 131, 300)]]

\* no obstacle but the floor far below; sphere and box shown but out of reach;
\* the floor at the cloth's height; the sphere at a corner; the box at a corner
RestScenes ==
  {DefaultScene,
   [ground |-> Num(-249), sphere |-> FarSphere, box |-> FarBox],
   [ground |-> Num(PlaneY), sphere |-> NoSphere, box |-> NoBox],
   [ground |-> Num(-249), sphere |-> NearSphere, box |-> NoBox],
   [ground |-> Num(-249), sphere |-> NoSphere, box |-> NearBox]}

InitRest ==
  /\ \E g \in RestGrids : w = g[1] /\ h = g[2]
  /\ \E st \in BOOLEAN, sh \in BOOLEAN, be \in BOOLEAN, gr \in BOOLEAN,
        int \in BOOLEAN :
        params = [DefaultParams EXCEPT !.structuralSprings = st, !.shearSprings = sh,
                                       !.bendingSprings = be, !.gravity = gr,
                                       !.integrate = int, !.DAMPING = Rat(1, 2),
                                       !.friction = Rat(1, 2)]
  /\ particles = Cloth(w, h, params).particles
  /\ constraints = Cloth(w, h, params).constraints
  /\ scene \in RestScenes
  /\ ops = <<>>
  /\ pre = particles

\* cloth.enforceConstraints()
EnforceConstraints ==
  /\ LastOp.name = "update"
  /\ \E z \in ZeroNormals :
       /\ EnforceInField(particles, constraints, 1, z)
       /\ particles' = enforceConstraints(particles, constraints, 1, z)
  /\ ops' = Append(ops, [name |-> "enforceConstraints"])
  /\ pre' = particles
  /\ UNCHANGED <<w, h, constraints, params, scene>>

\* cloth.handleCollisions()
HandleCollisions ==
  /\ LastOp.name = "enforceConstraints"
  /\ \A i \in DOMAIN particles :
       SphereInField(handleFloorCollision(particles[i], scene.ground), scene.sphere)
  /\ particles' = handleCollisions(particles, scene, params.friction)
  /\ ops' = Append(ops, [name |-> "handleCollisions"])
  /\ pre' = particles
  /\ UNCHANGED <<w, h, constraints, params, scene>>

NextRest == ApplyForces \/ Update \/ EnforceConstraints \/ HandleCollisions

SpecRest == InitRest /\ [][NextRest]_vars

(***************************************************************************)
(*   Any sequence of the operations on a cloth: forces, integration,       *)
(*   constraints, collisions, locks, wave, rain, custom force, impulses    *)
(***************************************************************************)
MaxOps == 2

\* square, wider than high, higher than wide
OpsGrids == {<<1, 1>>, <<2, 1>>, <<1, 2>>}

\* floor, sphere and box all active: the floor 3 below the cloth, the sphere
\* just above the corner (-250, 125, -250), the box just above the corner
\* (250, 125, 250)
LowScene ==
  [ground |-> Num(122),
   sphere |-> [visible |-> TRUE, position |-> VecI(-250, 130, -250),
               prevPosition |-> VecI(-250, 130, -250), radius |-> Num(5)],
   box    |-> [visible |-> TRUE,
               boundingBox |-> [min |-> VecI(240, 128, 240),
                                max |-> VecI(300, 200, 300)]]]
\* the obstacles hidden and the floor far below, or all three active
OpsScenes == {DefaultScene, LowScene}

\* the particles the one-particle operations are tried on: the two far corners
OpsTargets == {0, (w + 1) * (h + 1) - 1}
OpsForces == {VecI(0, -2, 0)}
\* applyRain's <<rate, hit>>: no drop; one drop on a cell of the grid, left of
\* the grid and right of it; more drops than the 1 x 1 cloth has particles
RainCalls ==
  {<<0, <<0, 0>>>>, <<1, <<0, 0>>>>, <<1, <<w, h>>>>, <<1, <<-1, 1>>>>,
   <<1, <<w + 1, h>>>>, <<5, <<0, 0>>>>}
\* a key press: <<keyCode, face under the cursor (0: none), typed in a text box>>
KeyPresses ==
  {<<37, 0, FALSE>>, <<37, 2, FALSE>>, <<38, 2, FALSE>>, <<65, 0, FALSE>>,
   <<37, 0, TRUE>>}

InitOps ==
  /\ \E g \in OpsGrids : w = g[1] /\ h = g[2]
  /\ params = [DefaultParams EXCEPT !.DAMPING = Rat(1, 2), !.friction = Rat(1, 2)]
  /\ particles = Cloth(w, h, params).particles
  /\ constraints = Cloth(w, h, params).constraints
  /\ scene \in OpsScenes
  /\ ops = <<>>
  /\ pre = particles

\* particles[i].addForce(force)
OpAddForce ==
  /\ Len(ops) < MaxOps
  /\ \E i \in OpsTargets, force \in OpsForces :
       /\ particles' = [particles EXCEPT ![i] = addForce(@, force)]
       /\ ops' = Append(ops, [name |-> "addForce", threw |-> FALSE])
  /\ pre' = particles
  /\ UNCHANGED <<w, h, constraints, params, scene>>

\* particles[i].lock()
OpLock ==
  /\ Len(ops) < MaxOps
  /\ \E i \in OpsTargets :
       /\ particles' = [particles EXCEPT ![i] = lock(@)]
       /\ ops' = Append(ops, [name |-> "lock", threw |-> FALSE])
  /\ pre' = particles
  /\ UNCHANGED <<w, h, constraints, params, scene>>

\* particles[i].lockToOriginal()
OpLockToOriginal ==
  /\ Len(ops) < MaxOps
  /\ \E i \in OpsTargets :
       /\ particles' = [particles EXCEPT ![i] = lockToOriginal(@)]
       /\ ops' = Append(ops, [name |-> "lockToOriginal", threw |-> FALSE])
  /\ pre' = particles
  /\ UNCHANGED <<w, h, constraints, params, scene>>

\* cloth.update(TIMESTEP): integrate on every particle
OpUpdate ==
  /\ Len(ops) < MaxOps
  /\ particles' = update(particles, params.TIMESTEP, params)
  /\ ops' = Append(ops, [name |-> "update", threw |-> FALSE])
  /\ pre' = particles
  /\ UNCHANGED <<w, h, constraints, params, scene>>

\* cloth.enforceConstraints()
OpEnforceConstraints ==
  /\ Len(ops) < MaxOps
  /\ \E z \in ZeroNormals :
       /\ EnforceInField(particles, constraints, 1, z)
       /\ particles' = enforceConstraints(particles, constraints, 1, z)
  /\ ops' = Append(ops, [name |-> "enforceConstraints", threw |-> FALSE])
  /\ pre' = particles
  /\ UNCHANGED <<w, h, constraints, params, scene>>

\* cloth.handleCollisions()
OpHandleCollisions ==
  /\ Len(ops) < MaxOps
  /\ \A i \in DOMAIN particles :
       SphereInField(handleFloorCollision(particles[i], scene.ground), scene.sphere)
  /\ particles' = handleCollisions(particles, scene, params.friction)
  /\ ops' = Append(ops, [name |-> "handleCollisions", threw |-> FALSE])
  /\ pre' = particles
  /\ UNCHANGED <<w, h, constraints, params, scene>>

\* cloth.applyWave: y is the offset of this step
OpApplyWave ==
  /\ Len(ops) < MaxOps
  /\ \E y \in WaveOffsets \ {Zero} :
       LET r == applyWave(particles, w, y, 0)
       IN  /\ particles' = r.ps
           /\ ops' = Append(ops, [name |-> "applyWave", threw |-> ~r.ok, y |-> y])
  /\ pre' = particles
  /\ UNCHANGED <<w, h, constraints, params, scene>>

\* cloth.applyRain(rainStrength, rate), every drop of the call at the same hit
OpApplyRain ==
  /\ Len(ops) < MaxOps
  /\ \E call \in RainCalls :
       LET rate == call[1]
           hit  == call[2]
           r == applyRain(particles, w, h, params.rainStrength, rate,
                          [k \in 1..rate |-> hit], 0)
       IN  /\ particles' = r.ps
           /\ ops' = Append(ops, [name |-> "applyRain", threw |-> ~r.ok,
                                  rate |-> rate, hit |-> hit])
  /\ pre' = particles
  /\ UNCHANGED <<w, h, constraints, params, scene>>

\* cloth.applyCustom(customFStrength, rate): t is Math.round(time / 100)
OpApplyCustom ==
  /\ Len(ops) < MaxOps
  /\ \E t \in CustomCells :
       LET r == applyCustom(particles, w, h, params.customFStrength, t)
       IN  /\ particles' = r.ps
           /\ ops' = Append(ops, [name |-> "applyCustom", threw |-> ~r.ok])
  /\ pre' = particles
  /\ UNCHANGED <<w, h, constraints, params, scene>>

\* a key is pressed with the cursor over face hitFace of the cloth, or over none
OpHandleImpactEvents ==
  /\ Len(ops) < MaxOps
  /\ \E press \in KeyPresses :
       LET keyCode  == press[1]
           inInput  == press[3]
           particle == getLookedAtParticle(ClothFaces(w, h), press[2])
           r == handleImpactEvents(particles, particle, keyCode, inInput)
       IN  /\ particles' = r.ps
           /\ ops' = Append(ops, [name |-> "handleImpactEvents", threw |-> ~r.ok,
                                  particle |-> particle, keyCode |-> keyCode,
                                  inInput |-> inInput])
  /\ pre' = particles
  /\ UNCHANGED <<w, h, constraints, params, scene>>

NextOps ==
  \/ OpAddForce \/ OpLock \/ OpLockToOriginal \/ OpUpdate
  \/ OpEnforceConstraints \/ OpHandleCollisions
  \/ OpApplyWave \/ OpApplyRain \/ OpApplyCustom \/ OpHandleImpactEvents

SpecOps == InitOps /\ [][NextOps]_vars

(***************************************************************************)
(*                               Claims                                    *)
(***************************************************************************)
\* C1 (as claimed): the constraint list built by the Cloth constructor holds no
\* unordered particle pair more than once, for every grid size and every
\* combination of the structural, shear and bending toggles.
C1_NoDuplicatePair ==
  LastOp.name = "Cloth" =>
    \A j, k \in 1..Len(constraints) :
      j # k => {constraints[j].p1, constraints[j].p2}
               # {constraints[k].p1, constraints[k].p2}

\* C2: after Particle.integrate(dt) the position is
\* current + (1 - damping) * (current - previous) + accumulatedForce / mass * dt^2,
\* previous is the position held before the call, and the accumulated force is zero.
C2_IntegrateVerlet ==
  LastOp.name = "integrate" =>
    \A i \in DOMAIN particles :
      LET old == pre[i]
          dt  == LastOp.arg
      IN  /\ particles[i].position =
               VAdd(VAdd(old.position,
                         VScale(VSub(old.position, old.previous),
                                Sub(One, params.DAMPING))),
                    VScale(VScale(old.netForce, Div(One, old.mass)), Mul(dt, dt)))
          /\ particles[i].previous = old.position
          /\ particles[i].netForce = VZero

\* the spec's scenario: mass 1, damping 0, force (0, -9.8, 0), dt 1, at rest at height 100
C2_Witness ==
  /\ LastOp.name = "integrate" /\ LastOp.arg = One
  /\ params.DAMPING = Zero
  /\ pre[0].mass = One
  /\ pre[0].position = VecI(0, 100, 0) /\ pre[0].previous = VecI(0, 100, 0)
  /\ pre[0].netForce = Vec(Zero, Rat(-49, 5), Zero)
  /\ particles[0].position[2] = Rat(451, 5)
  /\ particles[0].previous[2] = Num(100)

\* C3 (as claimed): at the end of every step (applyForces, then update) every
\* particle's accumulated force is zero, for every setting of the generator flags
\* and of the integration-enabled flag.
C3_NoResidualForce ==
  LastOp.name = "update" =>
    \A i \in DOMAIN particles : particles[i].netForce = VZero

\* C4: after handleFloorCollision the height is max(height before, floor height + EPS),
\* so never below floor height + EPS; x, z and the previous position are unchanged.
C4_FloorClamp ==
  LastOp.name = "floor" =>
    \A i \in DOMAIN particles :
      LET clearance == Add(scene.ground, Num(FloorEPS))
      IN  /\ particles[i].position[2] = Max2(pre[i].position[2], clearance)
          /\ ~Lt(particles[i].position[2], clearance)
          /\ particles[i].position[1] = pre[i].position[1]
          /\ particles[i].position[3] = pre[i].position[3]
          /\ particles[i].previous = pre[i].previous

\* a particle below the clearance was lifted onto it
C4_Witness ==
  /\ LastOp.name = "floor"
  /\ Lt(pre[0].position[2], Add(scene.ground, Num(FloorEPS)))
  /\ particles[0].position[2] = Add(scene.ground, Num(FloorEPS))
  /\ particles[0].position # pre[0].position

\* squared distance of a particle position to the sphere centre
SphereDistSq(pos) == VLengthSq(VSub(pos, scene.sphere.position))
ShellSq == Mul(Add(scene.sphere.radius, Num(SphereEPS)),
               Add(scene.sphere.radius, Num(SphereEPS)))

\* C5 (as claimed): after handleSphereCollision with the sphere active, a particle
\* that was within radius+EPS of the centre is at distance >= radius from it, and a
\* particle farther than radius+EPS is unmodified.
C5_SphereContainment ==
  (LastOp.name = "sphere" /\ scene.sphere.visible) =>
    \A i \in DOMAIN particles :
      /\ Le(SphereDistSq(pre[i].position), ShellSq) =>
           Ge(SphereDistSq(particles[i].position),
              Mul(scene.sphere.radius, scene.sphere.radius))
      /\ Gt(SphereDistSq(pre[i].position), ShellSq) => particles[i] = pre[i]

ExpandedBox == expandByScalar(scene.box.boundingBox, Num(BoxEPS))

\* the six face distances of a point of the expanded box, in the order
\* X-max, X-min, Y-max, Y-min, Z-max, Z-min
FaceDist(pos, k) ==
  LET axis == (k + 1) \div 2
  IN  IF k % 2 = 1 THEN Sub(ExpandedBox.max[axis], pos[axis])
      ELSE Sub(pos[axis], ExpandedBox.min[axis])

\* how deep a point is inside the expanded box: its least face distance
Depth(pos) ==
  Min2(Min2(Min2(FaceDist(pos, 1), FaceDist(pos, 2)),
            Min2(FaceDist(pos, 3), FaceDist(pos, 4))),
       Min2(FaceDist(pos, 5), FaceDist(pos, 6)))

InExpandedBox(pos) == \A k \in 1..6 : Ge(FaceDist(pos, k), Zero)

\* C6 (as claimed): after handleBoxCollision with the box active, a particle that
\* started inside the expanded box lies on the face nearest to its starting position
\* and is not strictly deeper inside than it started; a particle that started outside
\* is unmodified.
C6_BoxContainment ==
  (LastOp.name = "box" /\ scene.box.visible) =>
    \A i \in DOMAIN particles :
      /\ InExpandedBox(pre[i].position) =>
           /\ \E k \in 1..6 : /\ FaceDist(pre[i].position, k) = Depth(pre[i].position)
                              /\ FaceDist(particles[i].position, k) = Zero
           /\ ~(InExpandedBox(particles[i].position)
                /\ Gt(Depth(particles[i].position), Depth(pre[i].position)))
      /\ ~InExpandedBox(pre[i].position) => particles[i] = pre[i]

\* C7 (as claimed): calling a collision routine twice in a row, with the obstacles,
\* the friction and the previous position unchanged, leaves the position where the
\* first call put it.
C7_CollisionIdempotent ==
  \A n \in {"floor", "sphere", "box"} :
    LastTwoAre(n) => \A i \in DOMAIN particles : particles[i].position = pre[i].position

\* C10 (as claimed): in the degenerate cases (enforce on two particles at the same
\* position, handleSphereCollision on a particle at the active sphere's centre) the
\* positions are left unchanged and no non-finite coordinate is produced.
C10_DegenerateSkipped ==
  /\ (LastOp.name = "sphere" /\ scene.sphere.visible) =>
       \A i \in DOMAIN particles :
         pre[i].position = scene.sphere.position =>
           particles[i].position = pre[i].position /\ VFinite(particles[i].position)
  /\ LastOp.name = "enforce" =>
       \A c \in 1..Len(constraints) :
         pre[constraints[c].p1].position = pre[constraints[c].p2].position =>
           /\ particles[constraints[c].p1].position = pre[constraints[c].p1].position
           /\ particles[constraints[c].p2].position = pre[constraints[c].p2].position
           /\ VFinite(particles[constraints[c].p1].position)

\* the vector from p1 to p2 of the constraint, and its squared length
Span(ps, c) == VSub(ps[c.p2].position, ps[c.p1].position)
NumAbs(x) == IF Lt(x, Zero) THEN Neg(x) ELSE x

\* C8: for two particles at a finite non-zero distance, enforce() moves p1 by v and
\* p2 by -v, where v is half the signed error (distance - restLength) along the unit
\* vector from p1 to p2; the error |distance - restLength| does not increase and is
\* zero after the call, and stays zero under further calls; restLength never changes.
C8_EnforceConverges ==
  /\ \A k \in 1..Len(ops) : ops[k].name = "enforce" =>
        constraints[1].distance = ops[k].rest
  /\ (LastOp.name = "enforce" /\ VFinite(Span(pre, constraints[1]))
      /\ Span(pre, constraints[1]) # VZero) =>
       LET c    == constraints[1]
           AB   == Span(pre, c)
           dist == VLength(AB)
           v    == VScale(AB, Div(Div(Sub(dist, c.distance), Num(2)), dist))
       IN  /\ VSub(particles[c.p1].position, pre[c.p1].position) = v
           /\ VSub(particles[c.p2].position, pre[c.p2].position) = VScale(v, Num(-1))
           /\ VLengthSq(Span(particles, c)) = Mul(c.distance, c.distance)
           /\ Le(NumAbs(Sub(VLength(Span(particles, c)), c.distance)),
                 NumAbs(Sub(dist, c.distance)))
           /\ \A i \in DOMAIN particles : particles[i].previous = pre[i].previous

\* a displaced pair was pulled to its rest length, and a second call left it there
C8_Witness ==
  /\ LastTwoAre("enforce")
  /\ VLength(Span(particles, constraints[1])) = constraints[1].distance
  /\ particles = pre
  /\ particles[0].position # particles[0].previous


\* the cloth as built satisfies every constraint's rest length
RestAtStart ==
  \A k \in 1..Len(constraints) :
    LET a == particles[constraints[k].p1].original
        b == particles[constraints[k].p2].original
    IN  VLengthSq(VSub(b, a)) = Sq(constraints[k].distance)

\* no generator is on and gravity is zero
NoForces ==
  /\ ~params.wind /\ ~params.rain /\ ~params.wave /\ ~params.customForce
  /\ (params.gravity => params.GRAVITY = Zero)

\* as built, no particle is within reach of the floor, the sphere or the box
NoContactAtStart ==
  \A i \in DOMAIN particles :
    LET o == particles[i].original
        e == expandByScalar(scene.box.boundingBox, Num(BoxEPS))
    IN  /\ Ge(Sub(o[2], scene.ground), Num(FloorEPS))
        /\ scene.sphere.visible =>
             Gt(VLengthSq(VSub(o, scene.sphere.position)),
                Sq(Add(scene.sphere.radius, Num(SphereEPS))))
        /\ scene.box.visible => ~containsPoint(e, o)

\* C9: a cloth built satisfying every rest length, with every generator off, zero
\* gravity and no obstacle in contact, has every particle at its initial position
\* (and its previous position there too) after any number of steps of update,
\* enforceConstraints and handleCollisions.
C9_RestStable ==
  (RestAtStart /\ NoForces /\ NoContactAtStart) =>
    \A i \in DOMAIN particles :
      /\ particles[i].position = particles[i].original
      /\ particles[i].previous = particles[i].original

\* two whole steps on the 2 x 2 cloth with every kind of spring, integration on,
\* the gravity generator on with zero gravity, sphere and box shown out of reach
C9_Witness ==
  /\ RestAtStart /\ NoForces /\ NoContactAtStart
  /\ w = 2 /\ h = 2
  /\ params.structuralSprings /\ params.shearSprings /\ params.bendingSprings
  /\ params.integrate /\ params.gravity
  /\ scene.sphere.visible /\ scene.box.visible
  /\ LastOp.name = "handleCollisions"
  /\ Cardinality({k \in 1..Len(ops) : ops[k].name = "handleCollisions"}) = 2
  /\ Cardinality({k \in 1..Len(ops) : ops[k].name = "enforceConstraints"}) = 2

\* a grid coordinate is a cell of the grid
InGrid(hit) == hit[1] \in 0..w /\ hit[2] \in 0..h

\* the coordinate clamped into the grid
Clamped(hit) ==
  <<IF hit[1] < 0 THEN 0 ELSE IF hit[1] > w THEN w ELSE hit[1],
    IF hit[2] < 0 THEN 0 ELSE IF hit[2] > h THEN h ELSE hit[2]>>

\* C11 (as claimed): a rain impact outside the grid, and a key press with no
\* particle under the cursor, never reach past the particle array or dereference
\* a missing particle: the call returns normally, and it changes nothing or acts
\* on the clamped coordinate.
C11_BoundsChecked ==
  /\ (LastOp.name = "handleImpactEvents" /\ LastOp.particle = NoParticle)
       => (~LastOp.threw /\ particles = pre)
  /\ (LastOp.name = "applyRain" /\ LastOp.rate = 1 /\ ~InGrid(LastOp.hit))
       => /\ ~LastOp.threw
          /\ \/ particles = pre
             \/ particles = applyRain(pre, w, h, params.rainStrength, 1,
                                      <<Clamped(LastOp.hit)>>, 0).ps

\* C12 (as claimed): a cloth configured with a mass that is zero or negative, or
\* with a negative rest length, is rejected by the constructor: it reports failure,
\* and no particle it builds has such a mass and no constraint such a rest length.
C12_InvalidRejected ==
  LastOp.name = "Cloth" =>
    /\ (~Gt(params.MASS, Zero) \/ Lt(params.fabricLength, Zero)) => LastOp.threw
    /\ \A i \in DOMAIN particles : Gt(particles[i].mass, Zero)
    /\ \A k \in 1..Len(constraints) : Ge(constraints[k].distance, Zero)

\* what one drop at hit takes from the height of the particle at (u, v)
DropAt(hit, u, v) ==
  IF <<u, v>> = hit THEN params.rainStrength
  ELSE IF Abs(u - hit[1]) <= 1 /\ Abs(v - hit[2]) <= 1
       THEN Mul(params.rainStrength, Rat(1, 10))
  ELSE Zero

\* C13 (as claimed): applyRain(strength, rate) applies exactly rate impacts, for
\* every rate and grid: each lowers the particle at the hit cell by strength and
\* its in-grid neighbours by 0.1 * strength, and changes nothing else.
C13_RainExactRate ==
  (LastOp.name = "applyRain" /\ InGrid(LastOp.hit)) =>
    /\ ~LastOp.threw
    /\ \A i \in DOMAIN particles :
         LET drop == DropAt(LastOp.hit, i % (w + 1), i \div (w + 1))
         IN  particles[i] =
               [pre[i] EXCEPT !.position[2] = Sub(@, Mul(Num(LastOp.rate), drop))]

\* C14: under any sequence of addForce, integrate, collisions, constraint
\* enforcement, lock, lockToOriginal, wave, rain, custom force and key impulses,
\* every particle's rest position (original) is the one it was created with.
C14_OriginalImmutable ==
  \A i \in DOMAIN particles :
    particles[i].original =
      initParameterizedPosition(Rat(i % (w + 1), w), Rat(i \div (w + 1), h))

\* a rain drop has moved particle 0 off its rest position, and lockToOriginal
\* has put it back
C14_Witness ==
  /\ Len(ops) = 2 /\ ops[1].name = "applyRain" /\ LastOp.name = "lockToOriginal"
  /\ pre[0].position # pre[0].original
  /\ particles[0].position = particles[0].original
  /\ particles[0].original = pre[0].original

\* a point is outside the box b
OutsideBox(b, pt) == \E k \in 1..3 : Lt(pt[k], b.min[k]) \/ Gt(pt[k], b.max[k])

\* the point moved onto the nearest face of the expanded box, the first of the
\* nearest in the order X-max, X-min, Y-max, Y-min, Z-max, Z-min
FaceSnap(pos) ==
  LET k == CHOOSE f \in 1..6 :
             /\ FaceDist(pos, f) = Depth(pos)
             /\ \A g \in 1..(f - 1) : FaceDist(pos, g) # Depth(pos)
      axis == (k + 1) \div 2
  IN  [pos EXCEPT ![axis] = IF k % 2 = 1 THEN ExpandedBox.max[axis]
                            ELSE ExpandedBox.min[axis]]

\* the face-snapped position blended with the previous position by the friction
FrictionBlend(p) ==
  VAdd(VScale(FaceSnap(p.position), Sub(One, params.friction)),
       VScale(p.previous, params.friction))

\* C15 (as claimed): for a particle inside the expanded box, handleBoxCollision
\* blends the face-snapped position with the previous position exactly when the
\* previous position was outside the unexpanded box, and otherwise leaves the pure
\* face-snap, ties going to the first face in the order X-max ... Z-min.
C15_BlendIffOutsideBox ==
  (LastOp.name = "box" /\ scene.box.visible) =>
    \A i \in DOMAIN particles :
      InExpandedBox(pre[i].position) =>
        particles[i].position =
          IF OutsideBox(scene.box.boundingBox, pre[i].previous)
          THEN FrictionBlend(pre[i]) ELSE FaceSnap(pre[i].position)

\* C15 (amended): the blend is applied exactly when the previous position was
\* outside the EPS-expanded box; a previous position inside the expanded box,
\* inside the box itself or only inside its EPS margin, leaves the pure face-snap.
C15_BlendIffOutsideExpanded ==
  (LastOp.name = "box" /\ scene.box.visible) =>
    \A i \in DOMAIN particles :
      InExpandedBox(pre[i].position) =>
        particles[i].position =
          IF OutsideBox(ExpandedBox, pre[i].previous)
          THEN FrictionBlend(pre[i]) ELSE FaceSnap(pre[i].position)

\* a particle inside the expanded box whose previous position is in the EPS
\* margin: with friction, it is face-snapped and not blended
C15_Witness ==
  /\ LastOp.name = "box" /\ scene.box.visible
  /\ params.friction = Rat(1, 2)
  /\ InExpandedBox(pre[0].position)
  /\ OutsideBox(scene.box.boundingBox, pre[0].previous)
  /\ ~OutsideBox(ExpandedBox, pre[0].previous)
  /\ particles[0].position = FaceSnap(pre[0].position)
  /\ particles[0].position # FrictionBlend(pre[0])

\* the four boundary edges of the grid, as sets of particle indices
BoundaryEdges ==
  { {index(u, 0, w) : u \in 0..w}, {index(u, h, w) : u \in 0..w},
    {index(0, v, w) : v \in 0..h}, {index(w, v, w) : v \in 0..h} }

\* C16 (as claimed): on every grid, w # h included, applyWave accesses only
\* particles of the grid, and sets position and previous of every particle of one
\* boundary edge, and of no other, to its rest position + (0, y, 0).
C16_WaveMovesOneEdge ==
  LastOp.name = "applyWave" =>
    /\ ~LastOp.threw
    /\ \E edge \in BoundaryEdges :
         \A i \in DOMAIN particles :
           IF i \in edge
           THEN /\ particles[i].position =
                     VAdd(particles[i].original, Vec(Zero, LastOp.y, Zero))
                /\ particles[i].previous = particles[i].position
                /\ particles[i] = [pre[i] EXCEPT !.position = particles[i].position,
                                                 !.previous = particles[i].position]
           ELSE particles[i] = pre[i]

\* C17 (as claimed): after handleCollisions with the floor, the sphere and the box
\* all active, every particle's height is at least the floor height + EPS.
C17_FloorClearanceKept ==
  (LastOp.name = "handleCollisions" /\ scene.sphere.visible /\ scene.box.visible) =>
    \A i \in DOMAIN particles :
      Ge(particles[i].position[2], Add(scene.ground, Num(FloorEPS)))
=============================================================================
